---- MODULE Spec2Model ----
(***************************************************************************)
(* Model of the AI-PPT chart tools (05_自动化工具): generate_chart.py,      *)
(* generate_timeline.py and generate_big_numbers.py.                       *)
(*                                                                         *)
(* Two specifications share the variables:                                 *)
(*   Spec     the generate_* functions called directly on a dataset drawn  *)
(*            from bounded sets (the layout computation);                  *)
(*   SpecCLI  the three main() pipelines run on a raw --data string:       *)
(*            parse, then generate.                                        *)
(* A layout is the list of drawing calls a generate_* function issues      *)
(* (ax.bar, ax.plot, ax.pie, plt.Circle, FancyBboxPatch, ...), with the    *)
(* arguments the code computes for them.  Values are integers; a value the *)
(* code computes as a fraction is kept as a pair <<numerator, denominator>>*)
(* The chart functions take categories and values of one length (what      *)
(* parse_data returns); the categories only label the axis and are kept in *)
(* the parse result, not in the call.                                      *)
(***************************************************************************)
EXTENDS Integers, Sequences, FiniteSets, TLC

VARIABLES pc, call, out, data_str, parsed, registry, ncalls

vars == <<pc, call, out, data_str, parsed, registry, ncalls>>

(***************************************************************************)
(* Bounds of the model.                                                    *)
(***************************************************************************)
MaxN == 4
MaxVal == 2
MaxNeg == 1
MaxCards == 7
MaxItems == 5
MaxLen == 7

Values == (0 - MaxNeg)..MaxVal

RECURSIVE SeqsUpTo(_, _)
SeqsUpTo(S, n) ==
    IF n = 0 THEN {<<>>}
    ELSE LET shorter == SeqsUpTo(S, n - 1)
         IN  shorter \cup {Append(s, x) : s \in {t \in shorter : Len(t) = n - 1}, x \in S}

Datasets == SeqsUpTo(Values, MaxN)

\* The characters of a --data string: a digit, the two separators, a blank
Chars == {"1", ":", ",", " "}

Strings == SeqsUpTo(Chars, MaxLen)

\* The records of a timeline or of a metrics list: three text fields each
\* (time/number, title, description), a text being a sequence of characters
Item(t) == [f1 |-> t, f2 |-> t, f3 |-> t]

Items == {Item(<<"1">>), Item(<<"1", "1">>)}

Timelines == SeqsUpTo(Items, MaxItems)

Metrics == SeqsUpTo(Items, MaxCards)

(***************************************************************************)
(* Python builtins used by the code.                                       *)
(***************************************************************************)
RECURSIVE Sum(_)
Sum(s) == IF s = <<>> THEN 0 ELSE Head(s) + Sum(Tail(s))

\* max(values) of a non-empty list
Max(s) == CHOOSE m \in {s[i] : i \in 1..Len(s)} : \A i \in 1..Len(s) : s[i] <= m

Min2(a, b) == IF a <= b THEN a ELSE b

\* s[:k] for k >= 0
Take(s, k) == SubSeq(s, 1, Min2(k, Len(s)))

\* s[:-1]
ButLast(s) == IF s = <<>> THEN <<>> ELSE SubSeq(s, 1, Len(s) - 1)

(***************************************************************************)
(* generate_chart.py: COLOR_SCHEMES                                        *)
(***************************************************************************)
SchemeNames == {"blue", "orange", "green", "gold_blue", "multilayer"}

COLOR_SCHEMES ==
    [blue |-> [gradient |-> <<"#4A90E2", "#5B7FCE", "#6D6FBB", "#7E5FA8">>,
               primary |-> "#4A90E2", accent |-> "#FF6B6B",
               text |-> "#2C3E50", text_light |-> "#7F8C8D", background |-> "#ECF0F1"],
     orange |-> [gradient |-> <<"#FF9500", "#FFA733", "#FFB966", "#FFCB99">>,
               primary |-> "#FF9500", accent |-> "#4ECDC4",
               text |-> "#34495E", text_light |-> "#95A5A6", background |-> "#F7F9FA"],
     green |-> [gradient |-> <<"#00D084", "#33D99A", "#66E2B0", "#99EBC6">>,
               primary |-> "#00D084", accent |-> "#FDCB6E",
               text |-> "#2D3436", text_light |-> "#636E72", background |-> "#DFE6E9"],
     gold_blue |-> [gradient |-> <<"#1E3A5F", "#2C5282", "#3A6FA5">>,
               primary |-> "#2C5282", accent |-> "#D4AF37",
               text |-> "#2D3436", text_light |-> "#636E72", background |-> "#F5F6FA"],
     multilayer |-> [gradient |-> <<"#2C5282", "#3A6FA5", "#5A8FC4">>,
               primary |-> "#2C5282", accent |-> "#FF9500",
               text |-> "#2D3436", text_light |-> "#636E72", background |-> "#F5F6FA"]]

(***************************************************************************)
(* The result of a call: status "ok" (the function returned, the figure    *)
(* was saved) or "error" (an exception left the function, nothing saved),  *)
(* and the drawing calls issued.                                           *)
(***************************************************************************)
NoLayout ==
    [bars |-> <<>>, connectors |-> <<>>, labels |-> <<>>, colors |-> <<>>,
     ylim_100 |-> 0, points |-> <<>>, wedges |-> <<>>, explode |-> <<>>,
     startangle |-> 0, arcs |-> <<>>, center |-> 0, angles |-> <<>>,
     nodes |-> <<>>, cards |-> <<>>, rows |-> 0, cols |-> 0, cells |-> <<>>]

NoCall == [kind |-> "none", color |-> "none", values |-> <<>>, values2 |-> <<>>, records |-> <<>>]

NoOut == [status |-> "none", error |-> "none", layout |-> NoLayout]

Raise(e) == [status |-> "error", error |-> e, layout |-> NoLayout]

Saved(l) == [status |-> "ok", error |-> "none", layout |-> l]

(***************************************************************************)
(* generate_waterfall_chart                                                *)
(***************************************************************************)
\* Cumulative with the running total dropped: each level is the previous value alone
RECURSIVE CumulativeNoCarry(_)
CumulativeNoCarry(values) ==
    IF Len(values) <= 1 THEN <<0>>
    ELSE Append(CumulativeNoCarry(ButLast(values)), values[Len(values) - 1])

\* lines 296-299: cumulative = [0]; for v in values[:-1]: append(cumulative[-1] + v)
RECURSIVE Cumulative(_)
Cumulative(values) ==
    IF Len(values) <= 1 THEN <<0>>
    ELSE LET prev == Cumulative(ButLast(values))
         IN  Append(prev, prev[Len(prev)] + values[Len(values) - 1])

NegativeColor == "#FF6B6B"

\* lines 301-309: the colour of bar i (1-based here, i-1 in the code)
WaterfallColor(values, scheme, i) ==
    IF i = 1 \/ i = Len(values) THEN scheme.primary
    ELSE IF values[i] >= 0 THEN scheme.accent
    ELSE NegativeColor

\* WaterfallBar without the special case of the last column
WaterfallBarNoTotal(values, scheme, i) ==
    [x |-> i - 1,
     height |-> values[i],
     bottom |-> Cumulative(values)[i],
     color |-> WaterfallColor(values, scheme, i)]

\* lines 311-318: one ax.bar per element of zip(categories, values, cumulative)
WaterfallBar(values, scheme, i) ==
    [x |-> i - 1,
     height |-> values[i],
     bottom |-> IF i = Len(values) THEN 0 ELSE Cumulative(values)[i],
     color |-> WaterfallColor(values, scheme, i)]

WaterfallBars(values, scheme) ==
    [i \in 1..Min2(Len(values), Len(Cumulative(values))) |-> WaterfallBar(values, scheme, i)]

\* lines 320-323: for i in range(len(categories) - 2): a dashed line from
\* x = i + 0.3 to x = i + 0.7 at y = cumulative[i+1]; x is kept in tenths
WaterfallConnector(values, k) ==
    [x0_10 |-> 10 * (k - 1) + 3, x1_10 |-> 10 * (k - 1) + 7, y |-> Cumulative(values)[k + 1]]

\* WaterfallConnectors with range(len(categories) - 1): one line per gap
WaterfallConnectorsEveryGap(values) ==
    [k \in 1..(IF Len(values) >= 1 THEN Len(values) - 1 ELSE 0) |->
        [x0_10 |-> 10 * (k - 1) + 3, x1_10 |-> 10 * (k - 1) + 7,
         y |-> Sum(SubSeq(values, 1, k))]]

WaterfallConnectors(values) ==
    [k \in 1..(IF Len(values) >= 2 THEN Len(values) - 2 ELSE 0) |-> WaterfallConnector(values, k)]

\* lines 325-334: the data label of bar i; y is kept doubled (y_pos = val / 2 ...)
WaterfallLabel(values, i) ==
    [x |-> i - 1,
     y_2 |-> IF i = Len(values) THEN values[i] ELSE 2 * Cumulative(values)[i] + values[i],
     value |-> values[i],
     signed |-> (i > 1 /\ i < Len(values))]

WaterfallLabels(values) ==
    [i \in 1..Min2(Len(values), Len(Cumulative(values))) |-> WaterfallLabel(values, i)]

WaterfallLayout(values, scheme) ==
    Saved([NoLayout EXCEPT !.bars = WaterfallBars(values, scheme),
                           !.connectors = WaterfallConnectors(values),
                           !.labels = WaterfallLabels(values)])

GenerateWaterfallChart(values, color) ==
    /\ call' = [NoCall EXCEPT !.kind = "waterfall", !.color = color, !.values = values]
    /\ out' = WaterfallLayout(values, registry.chart[color])
    /\ registry' = registry
    /\ ncalls' = ncalls + 1
    /\ pc' = "done"

(***************************************************************************)
(* generate_bar_chart, generate_line_chart                                 *)
(***************************************************************************)
\* the slice taken in place, as del lst[n:] would: the list loses its tail
AfterDeleteTail(lst, n) == Take(lst, n)

\* lines 126, 185, 219 and generate_timeline.py line 110: lst[:n] builds a new
\* list; the list of the scheme it is taken from is left as it is
AfterSlice(lst, n) == lst

\* line 126 (and 185, 219): colors = scheme['gradient'][:len(categories)]
GradientColors(scheme, n) == Take(scheme.gradient, n)

\* lines 138, 170: ax.set_ylim(0, max(values) * 1.15), kept in hundredths
YLim100(values) == 115 * Max(values)

\* lines 127-135: the bars and one label per bar, at the bar's height
BarLayout(values, scheme) ==
    IF values = <<>> THEN Raise("ValueError")
    ELSE Saved([NoLayout EXCEPT
            !.bars = [i \in 1..Len(values) |-> [x |-> i - 1, height |-> values[i], bottom |-> 0]],
            !.colors = GradientColors(scheme, Len(values)),
            !.labels = [i \in 1..Len(values) |-> [x |-> i - 1, y |-> values[i], value |-> values[i]]],
            !.ylim_100 = YLim100(values)])

GenerateBarChart(values, color) ==
    /\ call' = [NoCall EXCEPT !.kind = "bar", !.color = color, !.values = values]
    /\ out' = BarLayout(values, registry.chart[color])
    /\ registry' = [registry EXCEPT !.chart[color].gradient = AfterSlice(@, Len(values))]
    /\ ncalls' = ncalls + 1
    /\ pc' = "done"

\* lines 153-165: the polyline and one label per point at v + max(values) * 0.03
LineLayout(values, scheme) ==
    IF values = <<>> THEN Raise("ValueError")
    ELSE Saved([NoLayout EXCEPT
            !.points = [i \in 1..Len(values) |-> [x |-> i - 1, y |-> values[i]]],
            !.colors = <<scheme.primary>>,
            !.labels = [i \in 1..Len(values) |->
                           [x |-> i - 1, y_100 |-> 100 * values[i] + 3 * Max(values),
                            value |-> values[i]]],
            !.ylim_100 = YLim100(values)])

GenerateLineChart(values, color) ==
    /\ call' = [NoCall EXCEPT !.kind = "line", !.color = color, !.values = values]
    /\ out' = LineLayout(values, registry.chart[color])
    /\ registry' = registry
    /\ ncalls' = ncalls + 1
    /\ pc' = "done"

(***************************************************************************)
(* generate_pie_chart, generate_donut_chart                                *)
(***************************************************************************)
\* Explode flagging only the first record that holds the maximum
ExplodeFirstOnly(values) ==
    [i \in 1..Len(values) |->
        IF values[i] = Max(values) /\ \A j \in 1..(i - 1) : values[j] # Max(values)
        THEN 5 ELSE 0]

\* lines 188, 222: explode = [0.05 if v == max(values) else 0 for v in values],
\* kept in hundredths
Explode(values) ==
    [i \in 1..Len(values) |-> IF values[i] = Max(values) THEN 5 ELSE 0]

\* lines 192, 226: startangle=90
StartAngle == 90

\* the wedge sizes taken as percentages of a turn instead of shares of their sum
PieDenominatorPercent(values) == 100

\* lines 191, 225: ax.pie(values, ...) divides every wedge size by their sum
PieDenominator(values) == Sum(values)

\* ax.pie called with counterclock=False
Clockwise == FALSE

\* lines 191-194, 225-228: ax.pie is called without counterclock, which
\* defaults to True: the wedges follow each other counterclockwise
Counterclock == TRUE

\* lines 191-194, 225-228: the wedges ax.pie lays out, one per value in the
\* order given: theta1 starts at startangle, each wedge runs from theta1 to
\* theta2 = theta1 +/- 360 * value / sum, and the next theta1 is that theta2.
\* Angles are in degrees, counterclockwise from the positive x-axis, as
\* fractions over the common denominator PieDenominator(values).
RECURSIVE PieArcs(_, _)
PieArcs(values, k) ==
    IF k = 0 THEN <<>>
    ELSE LET before == PieArcs(values, k - 1)
             theta1 == IF k = 1 THEN StartAngle * PieDenominator(values)
                       ELSE before[k - 1].to[1]
             theta2 == IF Counterclock THEN theta1 + 360 * values[k]
                       ELSE theta1 - 360 * values[k]
         IN  Append(before, [from |-> <<theta1, PieDenominator(values)>>,
                             to |-> <<theta2, PieDenominator(values)>>])

\* lines 191-194, 225-228: the arguments of ax.pie and the wedges it lays out
PieArgs(values, scheme) ==
    [NoLayout EXCEPT !.wedges = values,
                     !.colors = GradientColors(scheme, Len(values)),
                     !.explode = Explode(values),
                     !.startangle = StartAngle,
                     !.arcs = PieArcs(values, Len(values))]

\* ax.pie raises ValueError for a negative wedge size; for wedge sizes that add
\* up to 0 (the empty list among them) it divides by the sum, and whether that
\* ends in an exception depends on the matplotlib release: both outcomes.
PieOutcomes(values) ==
    IF \E i \in 1..Len(values) : values[i] < 0 THEN {"error"}
    ELSE IF Sum(values) = 0 THEN {"ok", "error"}
    ELSE {"ok"}

PieLayout(values, scheme, outcome) ==
    IF outcome = "error" THEN Raise("ValueError")
    ELSE Saved(PieArgs(values, scheme))

GeneratePieChart(values, color) ==
    /\ call' = [NoCall EXCEPT !.kind = "pie", !.color = color, !.values = values]
    /\ \E outcome \in PieOutcomes(values) :
           out' = PieLayout(values, registry.chart[color], outcome)
    /\ registry' = [registry EXCEPT !.chart[color].gradient = AfterSlice(@, Len(values))]
    /\ ncalls' = ncalls + 1
    /\ pc' = "done"

\* lines 240-245: the centre label is sum(values)
DonutLayout(values, scheme, outcome) ==
    IF outcome = "error" THEN Raise("ValueError")
    ELSE Saved([PieArgs(values, scheme) EXCEPT !.center = Sum(values)])

GenerateDonutChart(values, color) ==
    /\ call' = [NoCall EXCEPT !.kind = "donut", !.color = color, !.values = values]
    /\ \E outcome \in PieOutcomes(values) :
           out' = DonutLayout(values, registry.chart[color], outcome)
    /\ registry' = [registry EXCEPT !.chart[color].gradient = AfterSlice(@, Len(values))]
    /\ ncalls' = ncalls + 1
    /\ pc' = "done"

(***************************************************************************)
(* generate_radar_chart                                                    *)
(***************************************************************************)
\* np.linspace with its default endpoint=True: the last angle is the full turn
RadarAnglesEndpoint(n) ==
    [i \in 1..n |-> IF n = 1 THEN <<0, 1>> ELSE <<360 * (i - 1), n - 1>>]

\* line 260: np.linspace(0, 2 * np.pi, n, endpoint=False): angle i is
\* 2*pi*i/n, kept in degrees as the fraction <<360 * i, n>>
RadarAngles(n) == [i \in 1..n |-> <<360 * (i - 1), n>>]

\* lines 261-266: values_plot = values + [values[0]]; angles += angles[:1]
RadarLayout(values, scheme) ==
    IF values = <<>> THEN Raise("IndexError")
    ELSE Saved([NoLayout EXCEPT
            !.angles = RadarAngles(Len(values)) \o Take(RadarAngles(Len(values)), 1),
            !.points = values \o <<values[1]>>,
            !.colors = <<scheme.primary>>,
            !.labels = [i \in 1..Len(values) |->
                           [angle |-> RadarAngles(Len(values))[i], r |-> values[i] + 5,
                            value |-> values[i], color |-> scheme.accent]],
            !.ylim_100 = 10000])

GenerateRadarChart(values, color) ==
    /\ call' = [NoCall EXCEPT !.kind = "radar", !.color = color, !.values = values]
    /\ out' = RadarLayout(values, registry.chart[color])
    /\ registry' = registry
    /\ ncalls' = ncalls + 1
    /\ pc' = "done"

(***************************************************************************)
(* generate_comparison_chart                                               *)
(***************************************************************************)
\* ax.bar broadcasts x against the heights: equal lengths, or one of length 1
Broadcasts(n, m) == n = m \/ n = 1 \/ m = 1

\* lines 354-373: two series of bars at x -/+ width/2 (x kept in 1/1000),
\* primary for the first series and accent for the second
ComparisonLayout(values1, values2, scheme) ==
    IF values1 = <<>> \/ values2 = <<>> THEN Raise("ValueError")
    ELSE IF ~Broadcasts(Len(values1), Len(values2)) THEN Raise("ValueError")
    ELSE Saved([NoLayout EXCEPT
            !.bars = [i \in 1..Len(values1) |->
                         [x_1000 |-> 1000 * (i - 1) - 175, height |-> values1[i],
                          bottom |-> 0, color |-> scheme.primary]]
                     \o [i \in 1..Len(values1) |->
                         [x_1000 |-> 1000 * (i - 1) + 175,
                          height |-> IF Len(values2) = 1 THEN values2[1] ELSE values2[i],
                          bottom |-> 0, color |-> scheme.accent]],
            !.colors = <<scheme.primary, scheme.accent>>,
            !.ylim_100 = 115 * Max(<<Max(values1), Max(values2)>>)])

\* the second series of a comparison call
Series2(values) == {<<>>, values, ButLast(values), <<MaxVal>>}

GenerateComparisonChart(values1, values2, color) ==
    /\ call' = [NoCall EXCEPT !.kind = "comparison", !.color = color,
                              !.values = values1, !.values2 = values2]
    /\ out' = ComparisonLayout(values1, values2, registry.chart[color])
    /\ registry' = registry
    /\ ncalls' = ncalls + 1
    /\ pc' = "done"

(***************************************************************************)
(* generate_timeline.py: COLOR_SCHEMES, generate_horizontal_timeline       *)
(***************************************************************************)
TIMELINE_COLOR_SCHEMES ==
    [blue |-> [colors |-> <<"#4A90E2", "#5B7FCE", "#6D6FBB", "#7E5FA8">>,
               text |-> "#2C3E50", text_light |-> "#7F8C8D"],
     gold_blue |-> [colors |-> <<"#2C5282", "#D4AF37", "#3A6FA5", "#8B4513">>,
               text |-> "#2D3436", text_light |-> "#636E72"],
     multilayer |-> [colors |-> <<"#2C5282", "#FF9500", "#D4AF37", "#5A8FC4">>,
               text |-> "#2D3436", text_light |-> "#636E72"],
     orange |-> [colors |-> <<"#FF9500", "#FFA733", "#FFB966", "#FFCB99">>,
               text |-> "#34495E", text_light |-> "#95A5A6"],
     green |-> [colors |-> <<"#00D084", "#33D99A", "#66E2B0", "#99EBC6">>,
               text |-> "#2D3436", text_light |-> "#636E72"]]

\* line 107: np.linspace(1.5, 8.5, n)[i-1] as a fraction <<numerator, denominator>>
XPosition(n, i) ==
    IF n = 1 THEN <<3, 2>>
    ELSE <<3 * (n - 1) + 14 * (i - 1), 2 * (n - 1)>>

\* line 110: colors = scheme['colors'][:n]
TimelineColors(scheme, n) == Take(scheme.colors, n)

\* lines 111, 135: zip(x_positions, timeline, colors) stops at the shortest
ZipLen(timeline, colors) == Min2(Len(timeline), Len(colors))

\* lines 111-128: the node circle, the time label above and the title below
TimelineNode(timeline, scheme, i) ==
    [x |-> XPosition(Len(timeline), i),
     color |-> TimelineColors(scheme, Len(timeline))[i],
     time |-> timeline[i].f1,
     title |-> timeline[i].f2]

TimelineNodes(timeline, scheme) ==
    [i \in 1..ZipLen(timeline, TimelineColors(scheme, Len(timeline))) |->
        TimelineNode(timeline, scheme, i)]

\* line 132: card_width = (8.5 - 1.5) / n - 0.2 = (35 - n) / (5 n)
CardWidth(n) == <<35 - n, 5 * n>>

\* lines 135-153: the card under node i, from x - card_width/2, card_width wide
TimelineCard(timeline, scheme, i) ==
    LET x == XPosition(Len(timeline), i)
        w == CardWidth(Len(timeline))
    IN  [x |-> x,
         width |-> w,
         left |-> <<x[1] * 2 * w[2] - w[1] * x[2], x[2] * 2 * w[2]>>,
         color |-> TimelineColors(scheme, Len(timeline))[i],
         description |-> timeline[i].f3]

TimelineCards(timeline, scheme) ==
    [i \in 1..ZipLen(timeline, TimelineColors(scheme, Len(timeline))) |->
        TimelineCard(timeline, scheme, i)]

\* line 132 divides by n: ZeroDivisionError for an empty timeline
TimelineLayout(timeline, scheme) ==
    IF Len(timeline) = 0 THEN Raise("ZeroDivisionError")
    ELSE Saved([NoLayout EXCEPT !.nodes = TimelineNodes(timeline, scheme),
                                !.cards = TimelineCards(timeline, scheme)])

GenerateHorizontalTimeline(timeline, color) ==
    /\ call' = [NoCall EXCEPT !.kind = "timeline", !.color = color, !.records = timeline]
    /\ out' = TimelineLayout(timeline, registry.timeline[color])
    /\ registry' = [registry EXCEPT !.timeline[color].colors = AfterSlice(@, Len(timeline))]
    /\ ncalls' = ncalls + 1
    /\ pc' = "done"

(***************************************************************************)
(* generate_big_numbers.py: COLOR_SCHEMES, generate_big_number_cards       *)
(***************************************************************************)
BIG_NUMBER_COLOR_SCHEMES ==
    [blue |-> [primary |-> "#4A90E2", accent |-> "#FF6B6B",
               gradient |-> <<"#4A90E2", "#5B7FCE", "#6D6FBB", "#7E5FA8">>,
               text |-> "#2C3E50", text_light |-> "#7F8C8D", background |-> "#ECF0F1"],
     gold_blue |-> [primary |-> "#2C5282", accent |-> "#D4AF37",
               gradient |-> <<"#2C5282", "#D4AF37", "#3A6FA5", "#F4E4C1">>,
               text |-> "#2D3436", text_light |-> "#636E72", background |-> "#F5F6FA"],
     multilayer |-> [primary |-> "#2C5282", accent |-> "#FF9500",
               gradient |-> <<"#2C5282", "#FF9500", "#D4AF37", "#8B4513">>,
               text |-> "#2D3436", text_light |-> "#636E72", background |-> "#F5F6FA"],
     orange |-> [primary |-> "#FF9500", accent |-> "#4ECDC4",
               gradient |-> <<"#FF9500", "#FFA733", "#FFB966", "#FFCB99">>,
               text |-> "#34495E", text_light |-> "#95A5A6", background |-> "#F7F9FA"],
     green |-> [primary |-> "#00D084", accent |-> "#FDCB6E",
               gradient |-> <<"#00D084", "#33D99A", "#66E2B0", "#99EBC6">>,
               text |-> "#2D3436", text_light |-> "#636E72", background |-> "#DFE6E9"]]

\* lines 109-120: the grid for n cards
GridCols(n) == IF n <= 2 THEN n ELSE IF n <= 4 THEN 2 ELSE 3

\* GridRows with the rows of a 3-column grid rounded the wrong way
GridRowsOffByOne(n) == IF n <= 2 THEN 1 ELSE IF n <= 4 THEN 2 ELSE (n \div 3) + 1

GridRows(n) == IF n <= 2 THEN 1 ELSE IF n <= 4 THEN 2 ELSE (n + 2) \div 3

NoItem == [f1 |-> <<>>, f2 |-> <<>>, f3 |-> <<>>]

\* lines 138-174: cell i of the flattened axes carries card i, in colors[i % 2]
\* (i counted from 0 in the code)
CardCell(metrics, scheme, i) ==
    [card |-> TRUE, hidden |-> FALSE,
     color |-> IF (i - 1) % 2 = 0 THEN scheme.primary ELSE scheme.accent,
     metric |-> metrics[i]]

\* lines 176-178: the axes left over get ax.axis('off') and nothing else
HiddenCell == [card |-> FALSE, hidden |-> TRUE, color |-> "none", metric |-> NoItem]

\* lines 122-133: plt.subplots(rows, cols) allocates rows * cols axes
GridCells(metrics, scheme) ==
    [i \in 1..(GridRows(Len(metrics)) * GridCols(Len(metrics))) |->
        IF i <= Len(metrics) THEN CardCell(metrics, scheme, i) ELSE HiddenCell]

\* line 122: plt.subplots(1, 0) raises ValueError (a grid needs a positive
\* number of columns)
BigNumberLayout(metrics, scheme) ==
    IF GridCols(Len(metrics)) = 0 THEN Raise("ValueError")
    ELSE Saved([NoLayout EXCEPT !.rows = GridRows(Len(metrics)),
                                !.cols = GridCols(Len(metrics)),
                                !.cells = GridCells(metrics, scheme)])

GenerateBigNumberCards(metrics, color) ==
    /\ call' = [NoCall EXCEPT !.kind = "big_numbers", !.color = color, !.records = metrics]
    /\ out' = BigNumberLayout(metrics, registry.big_numbers[color])
    /\ registry' = registry
    /\ ncalls' = ncalls + 1
    /\ pc' = "done"



(***************************************************************************)
(* Python str methods and float() as the parsers use them.                 *)
(***************************************************************************)
\* sep in s
Contains(s, sep) == \E i \in 1..Len(s) : s[i] = sep

\* s.split(sep): the pieces between the separators, empty pieces kept
RECURSIVE Split(_, _)
Split(s, sep) ==
    IF ~Contains(s, sep) THEN <<s>>
    ELSE LET k == CHOOSE i \in 1..Len(s) : s[i] = sep /\ \A j \in 1..(i - 1) : s[j] # sep
         IN  <<SubSeq(s, 1, k - 1)>> \o Split(SubSeq(s, k + 1, Len(s)), sep)

\* s.lstrip(), s.rstrip(), s.strip()
RECURSIVE LStrip(_)
LStrip(s) == IF s # <<>> /\ Head(s) = " " THEN LStrip(Tail(s)) ELSE s

RECURSIVE RStrip(_)
RStrip(s) == IF s # <<>> /\ s[Len(s)] = " " THEN RStrip(SubSeq(s, 1, Len(s) - 1)) ELSE s

Strip(s) == RStrip(LStrip(s))

Digits == {"0", "1", "2", "3", "4", "5", "6", "7", "8", "9"}

DigitValue(c) ==
    CASE c = "0" -> 0 [] c = "1" -> 1 [] c = "2" -> 2 [] c = "3" -> 3 [] c = "4" -> 4
      [] c = "5" -> 5 [] c = "6" -> 6 [] c = "7" -> 7 [] c = "8" -> 8 [] c = "9" -> 9

\* float(s) accepts, of the texts over Chars, a non-empty run of digits with
\* blanks around it; anything else raises ValueError
IsFloat(s) == Strip(s) # <<>> /\ \A i \in 1..Len(Strip(s)) : Strip(s)[i] \in Digits

RECURSIVE DecimalValue(_)
DecimalValue(s) ==
    IF s = <<>> THEN 0 ELSE 10 * DecimalValue(SubSeq(s, 1, Len(s) - 1)) + DigitValue(s[Len(s)])

Float(s) == DecimalValue(Strip(s))

\* str(i) for i >= 0
RECURSIVE Str(_)
Str(i) ==
    LET d == CHOOSE c \in Digits : DigitValue(c) = i % 10
    IN  IF i < 10 THEN <<d>> ELSE Append(Str(i \div 10), d)

(***************************************************************************)
(* generate_chart.py: parse_data                                           *)
(***************************************************************************)
NoParse ==
    [parser |-> "none", status |-> "none", categories |-> <<>>, values |-> <<>>,
     records |-> <<>>]

ParseError(parser) == [NoParse EXCEPT !.parser = parser, !.status = "error"]

\* line 110: cat, val = item.split(':') needs exactly two pieces;
\* line 112: float(val.strip())
PairOk(item) == Len(Split(item, ":")) = 2 /\ IsFloat(Strip(Split(item, ":")[2]))

\* PairCategory without the strip()
PairCategoryRaw(item) == Split(item, ":")[1]

\* line 111: categories.append(cat.strip())
PairCategory(item) == Strip(Split(item, ":")[1])

\* line 112: values.append(float(val.strip()))
PairValue(item) == Float(Strip(Split(item, ":")[2]))

\* line 117: f'项目{i+1}'; the two characters of the prefix are written "xiang", "mu"
AutoCategory(i) == <<"xiang", "mu">> \o Str(i)

\* lines 104-118
ParseData(s) ==
    LET items == Split(s, ",")
    IN  IF Contains(s, ":")
        THEN IF \A i \in 1..Len(items) : PairOk(items[i])
             THEN [NoParse EXCEPT !.parser = "parse_data", !.status = "ok",
                       !.categories = [i \in 1..Len(items) |-> PairCategory(items[i])],
                       !.values = [i \in 1..Len(items) |-> PairValue(items[i])]]
             ELSE ParseError("parse_data")
        ELSE IF \A i \in 1..Len(items) : IsFloat(Strip(items[i]))
             THEN [NoParse EXCEPT !.parser = "parse_data", !.status = "ok",
                       !.categories = [i \in 1..Len(items) |-> AutoCategory(i)],
                       !.values = [i \in 1..Len(items) |-> Float(Strip(items[i]))]]
             ELSE ParseError("parse_data")

(***************************************************************************)
(* generate_timeline.py: parse_timeline_data;                              *)
(* generate_big_numbers.py: parse_metrics_data                             *)
(***************************************************************************)
\* lines 77-86 (91-100): the record of an item that has at least 3 pieces
TripleOf(item) ==
    LET parts == Split(item, ":")
    IN  [f1 |-> Strip(parts[1]), f2 |-> Strip(parts[2]), f3 |-> Strip(parts[3])]

\* the loop: an item is appended if len(parts) >= 3 and passed over otherwise
RECURSIVE Triples(_)
Triples(items) ==
    IF items = <<>> THEN <<>>
    ELSE IF Len(Split(Head(items), ":")) >= 3
         THEN <<TripleOf(Head(items))>> \o Triples(Tail(items))
         ELSE Triples(Tail(items))

\* generate_timeline.py lines 69-87
ParseTimelineData(s) ==
    [NoParse EXCEPT !.parser = "parse_timeline_data", !.status = "ok",
                    !.records = Triples(Split(s, ","))]

\* generate_big_numbers.py lines 83-101
ParseMetricsData(s) ==
    [NoParse EXCEPT !.parser = "parse_metrics_data", !.status = "ok",
                    !.records = Triples(Split(s, ","))]

(***************************************************************************)
(* The three main() functions, run on a --data string with the default     *)
(* --color of the tool.                                                    *)
(***************************************************************************)
ChartTypes == {"bar", "line", "pie", "donut", "radar", "waterfall"}

ChartDefaultColor == "blue"

TimelineDefaultColor == "gold_blue"

BigNumbersDefaultColor == "gold_blue"

\* generate_chart.py lines 446-458: the dispatch on args.type
ChartOutcomes(type, values, scheme) ==
    CASE type = "bar" -> {BarLayout(values, scheme)}
      [] type = "line" -> {LineLayout(values, scheme)}
      [] type = "pie" -> {PieLayout(values, scheme, o) : o \in PieOutcomes(values)}
      [] type = "donut" -> {DonutLayout(values, scheme, o) : o \in PieOutcomes(values)}
      [] type = "radar" -> {RadarLayout(values, scheme)}
      [] type = "waterfall" -> {WaterfallLayout(values, scheme)}

\* generate_chart.py main(): parse_data, then the generate_* of --type; an
\* exception of parse_data ends the run before any chart is generated
MainChart ==
    /\ pc = "start"
    /\ parsed' = ParseData(data_str)
    /\ IF parsed'.status = "error"
       THEN call' = NoCall /\ out' = Raise("ValueError") /\ UNCHANGED <<registry, ncalls>>
       ELSE \E type \in ChartTypes :
               /\ call' = [NoCall EXCEPT !.kind = type, !.color = ChartDefaultColor,
                                         !.values = parsed'.values]
               /\ out' \in ChartOutcomes(type, parsed'.values,
                                         registry.chart[ChartDefaultColor])
               /\ registry' = IF type \in {"bar", "pie", "donut"}
                              THEN [registry EXCEPT !.chart[ChartDefaultColor].gradient =
                                                        AfterSlice(@, Len(parsed'.values))]
                              ELSE registry
               /\ ncalls' = ncalls + 1
    /\ pc' = "done"
    /\ UNCHANGED data_str

\* generate_timeline.py main(): parse_timeline_data, generate_horizontal_timeline
MainTimeline ==
    /\ pc = "start"
    /\ parsed' = ParseTimelineData(data_str)
    /\ GenerateHorizontalTimeline(parsed'.records, TimelineDefaultColor)
    /\ UNCHANGED data_str

\* generate_big_numbers.py main(): parse_metrics_data, generate_big_number_cards
MainBigNumbers ==
    /\ pc = "start"
    /\ parsed' = ParseMetricsData(data_str)
    /\ GenerateBigNumberCards(parsed'.records, BigNumbersDefaultColor)
    /\ UNCHANGED data_str

\* the three modules' COLOR_SCHEMES dictionaries as they are after import
InitialRegistry ==
    [chart |-> COLOR_SCHEMES,
     timeline |-> TIMELINE_COLOR_SCHEMES,
     big_numbers |-> BIG_NUMBER_COLOR_SCHEMES]

InitCLI ==
    /\ pc = "start"
    /\ call = NoCall
    /\ out = NoOut
    /\ data_str \in Strings
    /\ parsed = NoParse
    /\ registry = InitialRegistry
    /\ ncalls = 0

NextCLI ==
    \/ MainChart
    \/ MainTimeline
    \/ MainBigNumbers

SpecCLI == InitCLI /\ [][NextCLI]_vars

Init ==
    /\ pc = "start"
    /\ call = NoCall
    /\ out = NoOut
    /\ data_str = <<>>
    /\ parsed = NoParse
    /\ registry = InitialRegistry
    /\ ncalls = 0

CallBarChart ==
    /\ pc = "start"
    /\ \E values \in Datasets, color \in SchemeNames : GenerateBarChart(values, color)
    /\ UNCHANGED <<data_str, parsed>>

CallLineChart ==
    /\ pc = "start"
    /\ \E values \in Datasets, color \in SchemeNames : GenerateLineChart(values, color)
    /\ UNCHANGED <<data_str, parsed>>

CallPieChart ==
    /\ pc = "start"
    /\ \E values \in Datasets, color \in SchemeNames : GeneratePieChart(values, color)
    /\ UNCHANGED <<data_str, parsed>>

CallDonutChart ==
    /\ pc = "start"
    /\ \E values \in Datasets, color \in SchemeNames : GenerateDonutChart(values, color)
    /\ UNCHANGED <<data_str, parsed>>

CallRadarChart ==
    /\ pc = "start"
    /\ \E values \in Datasets, color \in SchemeNames : GenerateRadarChart(values, color)
    /\ UNCHANGED <<data_str, parsed>>

CallWaterfallChart ==
    /\ pc = "start"
    /\ \E values \in Datasets, color \in SchemeNames : GenerateWaterfallChart(values, color)
    /\ UNCHANGED <<data_str, parsed>>

CallComparisonChart ==
    /\ pc = "start"
    /\ \E values \in Datasets, color \in SchemeNames :
           \E values2 \in Series2(values) : GenerateComparisonChart(values, values2, color)
    /\ UNCHANGED <<data_str, parsed>>

CallHorizontalTimeline ==
    /\ pc = "start"
    /\ \E timeline \in Timelines, color \in SchemeNames :
           GenerateHorizontalTimeline(timeline, color)
    /\ UNCHANGED <<data_str, parsed>>

CallBigNumberCards ==
    /\ pc = "start"
    /\ \E metrics \in Metrics, color \in SchemeNames :
           GenerateBigNumberCards(metrics, color)
    /\ UNCHANGED <<data_str, parsed>>

Next ==
    \/ CallWaterfallChart
    \/ CallBarChart
    \/ CallLineChart
    \/ CallPieChart
    \/ CallDonutChart
    \/ CallRadarChart
    \/ CallComparisonChart
    \/ CallHorizontalTimeline
    \/ CallBigNumberCards

Spec == Init /\ [][Next]_vars

(***************************************************************************)
(* A session: layout computations one after the other in one process, on   *)
(* the same COLOR_SCHEMES dictionaries (specification SpecSession).        *)
(***************************************************************************)
MaxCalls == 2

\* a generate_* function has returned (or raised) and the caller goes on to
\* its next call; the module-level COLOR_SCHEMES stay as the call left them
Return ==
    /\ pc = "done"
    /\ ncalls < MaxCalls
    /\ pc' = "start"
    /\ call' = NoCall
    /\ out' = NoOut
    /\ UNCHANGED <<data_str, parsed, registry, ncalls>>

NextSession ==
    \/ CallWaterfallChart
    \/ CallBarChart
    \/ CallLineChart
    \/ CallPieChart
    \/ CallDonutChart
    \/ CallRadarChart
    \/ CallComparisonChart
    \/ CallHorizontalTimeline
    \/ CallBigNumberCards
    \/ Return

SpecSession == Init /\ [][NextSession]_vars


(***************************************************************************)
(* Properties of the layout computation (specification Spec).              *)
(***************************************************************************)
Waterfall == pc = "done" /\ call.kind = "waterfall"

\* C1: waterfall, n >= 2: the final record (index n-1) is drawn as a bar that
\* starts at 0 and whose height is its own value, whatever the preceding
\* values add up to.
C1_FinalBarAbsolute ==
    (Waterfall /\ Len(call.values) >= 2) =>
        LET n == Len(call.values)
        IN  /\ out.status = "ok"
            /\ Len(out.layout.bars) = n
            /\ out.layout.bars[n].x = n - 1
            /\ out.layout.bars[n].bottom = 0
            /\ out.layout.bars[n].height = call.values[n]

\* a final bar whose value is not the sum of the records before it
C1_Witness ==
    /\ Waterfall
    /\ Len(call.values) = 3
    /\ Sum(ButLast(call.values)) # call.values[3]
    /\ Sum(ButLast(call.values)) # 0
    /\ out.layout.bars[3].bottom = 0
    /\ out.layout.bars[3].height = call.values[3]
    /\ call.values[3] > 0

\* C2: waterfall: record 0 is drawn from 0; every intermediate record i is a
\* bar that starts at values[0] + ... + values[i-1] and extends by values[i];
\* the end of bar i is the start of bar i+1 for every i < n-2.
C2_IntermediateBarsCumulative ==
    (Waterfall /\ Len(call.values) >= 1) =>
        LET n == Len(call.values)
            bars == out.layout.bars
        IN  /\ Len(bars) = n
            /\ bars[1].bottom = 0
            /\ bars[1].height = call.values[1]
            /\ \A i \in 2..(n - 1) :
                  /\ bars[i].bottom = Sum(SubSeq(call.values, 1, i - 1))
                  /\ bars[i].height = call.values[i]
            /\ \A i \in 1..(n - 2) :
                  bars[i].bottom + bars[i].height = bars[i + 1].bottom

\* two intermediate bars, the second one on top of two non-zero records
C2_Witness ==
    /\ Waterfall
    /\ Len(call.values) = 4
    /\ call.values[1] # 0
    /\ call.values[2] < 0
    /\ out.layout.bars[3].bottom = call.values[1] + call.values[2]
    /\ out.layout.bars[3].bottom # call.values[2]

BigNumbers == pc = "done" /\ call.kind = "big_numbers"

\* the least r with 3 * r >= n
CeilThird(n) == CHOOSE r \in 0..n : 3 * r >= n /\ 3 * (r - 1) < n

\* C3: big-number grid for n >= 1 cards (an empty list has no grid): n <= 2
\* gives 1 row and n columns, 3 <= n <= 4 a 2x2 grid, n >= 5 gives 3 columns
\* and ceil(n/3) rows; cells 0..n-1 carry the cards in dataset order and
\* exactly the cells n..rows*cols-1 are allocated and hidden.
C3_GridPacking ==
    (BigNumbers /\ Len(call.records) >= 1) =>
        LET n == Len(call.records)
            l == out.layout
        IN  /\ out.status = "ok"
            /\ (n <= 2 => l.rows = 1 /\ l.cols = n)
            /\ (n >= 3 /\ n <= 4 => l.rows = 2 /\ l.cols = 2)
            /\ (n >= 5 => l.cols = 3 /\ l.rows = CeilThird(n))
            /\ Len(l.cells) = l.rows * l.cols
            /\ Len(l.cells) >= n
            /\ \A i \in 1..Len(l.cells) :
                  IF i <= n
                  THEN l.cells[i].card /\ ~l.cells[i].hidden
                       /\ l.cells[i].metric = call.records[i]
                  ELSE l.cells[i].hidden /\ ~l.cells[i].card

\* n = 5: a 3x2 grid whose sixth cell is hidden, the cards in input order
C3_Witness ==
    /\ BigNumbers
    /\ Len(call.records) = 5
    /\ call.records[1] # call.records[2]
    /\ out.layout.rows = 2
    /\ out.layout.cols = 3
    /\ out.layout.cells[6].hidden
    /\ out.layout.cells[5].card

Timeline == pc = "done" /\ call.kind = "timeline"

\* C4 (as claimed): timeline of n >= 1 records: exactly n nodes and n cards,
\* one per record in dataset order, node i in the colour at position i mod g
\* of the scheme's colour sequence of length g, also when n > g.
C4_NodesCycleColors ==
    (Timeline /\ Len(call.records) >= 1) =>
        LET n == Len(call.records)
            colors == TIMELINE_COLOR_SCHEMES[call.color].colors
            g == Len(colors)
        IN  /\ Len(out.layout.nodes) = n
            /\ Len(out.layout.cards) = n
            /\ \A i \in 1..n :
                  /\ out.layout.nodes[i].color = colors[((i - 1) % g) + 1]
                  /\ out.layout.nodes[i].time = call.records[i].f1
                  /\ out.layout.cards[i].description = call.records[i].f3

Pie == pc = "done" /\ call.kind \in {"pie", "donut"} /\ out.status = "ok"

Flagged(i) == out.layout.explode[i] # 0

IsMaximum(values, i) == \A j \in 1..Len(values) : values[j] <= values[i]

\* C6 (as claimed): pie/donut: exactly one record is flagged exploded, the
\* first record whose value equals the maximum; later ties are not flagged.
\* (Read on the datasets whose values add up to more than 0, which ax.pie
\* draws on every release.)
C6_ExactlyOneExploded ==
    (Pie /\ Sum(call.values) > 0) =>
        /\ Len(out.layout.explode) = Len(call.values)
        /\ \A i \in 1..Len(call.values) :
              Flagged(i) <=> (/\ IsMaximum(call.values, i)
                              /\ \A j \in 1..(i - 1) : ~IsMaximum(call.values, j))

\* C6 (amended): pie/donut: the flagged records are exactly the records whose
\* value equals the maximum value: the first of them and every later tie.
C6_EveryMaximumExploded ==
    (Pie /\ Len(call.values) >= 1) =>
        /\ Len(out.layout.explode) = Len(call.values)
        /\ \A i \in 1..Len(call.values) : Flagged(i) <=> IsMaximum(call.values, i)
        /\ \E i \in 1..Len(call.values) : Flagged(i)

\* a tie for the maximum next to a smaller record: both maxima are flagged
C6_Witness ==
    /\ Pie
    /\ Len(call.values) = 3
    /\ call.values[1] < call.values[2]
    /\ call.values[2] = call.values[3]
    /\ ~Flagged(1) /\ Flagged(2) /\ Flagged(3)

\* C7: waterfall connectors, n >= 2: exactly n-2 lines; connector i lies at
\* the level values[0] + ... + values[i] in the gap between bar i and bar
\* i+1 (bars are 0.6 wide: bar i ends at i + 0.3, bar i+1 starts at i + 0.7);
\* none is laid out between bar n-2 and the final bar.
C7_Connectors ==
    (Waterfall /\ Len(call.values) >= 2) =>
        LET n == Len(call.values)
            cs == out.layout.connectors
        IN  /\ Len(cs) = n - 2
            /\ \A k \in 1..Len(cs) :
                  /\ cs[k].y = Sum(SubSeq(call.values, 1, k))
                  /\ cs[k].x0_10 = 10 * (k - 1) + 3
                  /\ cs[k].x1_10 = 10 * k - 3
            /\ \A k \in 1..Len(cs) : cs[k].x1_10 < 10 * (n - 2)

\* four records: two connectors, the second at the sum of the first two values
C7_Witness ==
    /\ Waterfall
    /\ Len(call.values) = 4
    /\ call.values[1] > 0 /\ call.values[2] > 0 /\ call.values[3] > 0
    /\ Len(out.layout.connectors) = 2
    /\ out.layout.connectors[2].y = call.values[1] + call.values[2]

\* C8 (as claimed): waterfall, under each of the five schemes: an
\* intermediate bar with a positive value and an intermediate bar with a
\* negative value never get the same colour.
C8_ColorDistinguishesSign ==
    Waterfall =>
        \A i, j \in 2..(Len(call.values) - 1) :
            (call.values[i] > 0 /\ call.values[j] < 0) =>
                out.layout.bars[i].color # out.layout.bars[j].color

EmptyDataset ==
    IF call.kind \in {"timeline", "big_numbers"} THEN call.records = <<>>
    ELSE call.values = <<>>

\* C10 (as claimed): for every chart kind, computing a layout for an empty
\* dataset fails and yields no layout.
C10_EmptyDatasetFails ==
    (pc = "done" /\ EmptyDataset) => (out.status = "error" /\ out.layout = NoLayout)


(***************************************************************************)
(* Properties of the parsers and of the main() pipelines (SpecCLI).  The   *)
(* records and fields of a --data string are located here by position, not *)
(* by Split.                                                               *)
(***************************************************************************)
Positions(s, c) == {i \in 1..Len(s) : s[i] = c}

\* the number of comma-separated records of s
NumRecords(s) == Cardinality(Positions(s, ",")) + 1

\* the position of the k-th comma of s; 0 for k = 0, Len(s) + 1 past the last
Comma(s, k) ==
    IF k = 0 THEN 0
    ELSE IF k > Cardinality(Positions(s, ",")) THEN Len(s) + 1
    ELSE CHOOSE i \in Positions(s, ",") :
             Cardinality({j \in Positions(s, ",") : j <= i}) = k

\* record k of s (k = 1 .. NumRecords(s)): the text between two commas
RecordText(s, k) == SubSeq(s, Comma(s, k - 1) + 1, Comma(s, k) - 1)

\* the number of colon-separated fields of a record
NumFields(r) == Cardinality(Positions(r, ":")) + 1

\* a text without the blanks at its two ends
Trimmed(t) ==
    LET inked == {i \in 1..Len(t) : t[i] # " "}
    IN  IF inked = {} THEN <<>>
        ELSE SubSeq(t, CHOOSE i \in inked : \A j \in inked : i <= j,
                       CHOOSE i \in inked : \A j \in inked : j <= i)

RECURSIVE Pow10(_)
Pow10(n) == IF n = 0 THEN 1 ELSE 10 * Pow10(n - 1)

IsNumber(t) == t # <<>> /\ \A i \in 1..Len(t) : t[i] \in Digits

RECURSIVE NumberFrom(_, _)
NumberFrom(t, i) ==
    IF i > Len(t) THEN 0
    ELSE DigitValue(t[i]) * Pow10(Len(t) - i) + NumberFrom(t, i + 1)

\* the label and the value text of a label:value record
LabelText(r) == SubSeq(r, 1, (CHOOSE i \in Positions(r, ":") : TRUE) - 1)

ValueText(r) == SubSeq(r, (CHOOSE i \in Positions(r, ":") : TRUE) + 1, Len(r))

\* every record of s is label:value with a numeric value
ValidPairs(s) ==
    \A k \in 1..NumRecords(s) :
        /\ NumFields(RecordText(s, k)) = 2
        /\ IsNumber(Trimmed(ValueText(RecordText(s, k))))

ChartRun == pc = "done" /\ parsed.parser = "parse_data"

\* C9: for every valid input in which each comma-separated record is
\* label:value, parse_data returns as many records as the input has, record i
\* holding the trimmed label and the numeric value of input record i.
C9_PairsPreserved ==
    (ChartRun /\ ValidPairs(data_str)) =>
        /\ parsed.status = "ok"
        /\ Len(parsed.categories) = NumRecords(data_str)
        /\ Len(parsed.values) = NumRecords(data_str)
        /\ \A k \in 1..NumRecords(data_str) :
               /\ parsed.categories[k] = Trimmed(LabelText(RecordText(data_str, k)))
               /\ parsed.values[k] = NumberFrom(Trimmed(ValueText(RecordText(data_str, k))), 1)

\* two records with different values, the first label a blank that is trimmed
C9_Witness ==
    /\ ChartRun
    /\ ValidPairs(data_str)
    /\ NumRecords(data_str) = 2
    /\ LabelText(RecordText(data_str, 1)) = <<" ">>
    /\ parsed.categories[1] = <<>>
    /\ parsed.values[1] = 1
    /\ parsed.values[2] = 11

\* a record with fewer fields than the parser's shape requires: fewer than 2
\* for parse_data reading label:value records (a string with a colon in it;
\* without any colon the string is a bare list of numbers, another format),
\* fewer than 3 for the two triple parsers
HasShortRecord ==
    \E k \in 1..NumRecords(data_str) :
        IF parsed.parser = "parse_data"
        THEN Positions(data_str, ":") # {} /\ NumFields(RecordText(data_str, k)) < 2
        ELSE NumFields(RecordText(data_str, k)) < 3

\* C5 (as claimed): whenever a record of the input has fewer fields than the
\* shape requires, the run fails and no layout is produced.
C5_ShortRecordFails ==
    (pc = "done" /\ HasShortRecord) => (out.status = "error" /\ out.layout = NoLayout)

(***************************************************************************)
(* Pie and donut arcs (specification Spec).                                *)
(***************************************************************************)
\* the signed sweep of arc i, as a numerator over the arc's denominator
SweepNum(i) == out.layout.arcs[i].to[1] - out.layout.arcs[i].from[1]

ArcDen(i) == out.layout.arcs[i].to[2]

RECURSIVE SweepNumsFrom(_)
SweepNumsFrom(i) ==
    IF i > Len(out.layout.arcs) THEN 0 ELSE SweepNum(i) + SweepNumsFrom(i + 1)

ArcsConsecutive ==
    /\ Len(out.layout.arcs) = Len(call.values)
    /\ out.layout.arcs[1].from[1] = 90 * out.layout.arcs[1].from[2]
    /\ \A i \in 1..(Len(call.values) - 1) :
          out.layout.arcs[i + 1].from = out.layout.arcs[i].to

\* C12 (as claimed): the arcs are laid out consecutively in dataset order
\* from 90 degrees, each next arc starting where the previous one ends,
\* proceeding clockwise (towards smaller angles).
C12_ArcsClockwise ==
    (Pie /\ Sum(call.values) > 0) =>
        /\ ArcsConsecutive
        /\ \A i \in 1..Len(call.values) :
              /\ ArcDen(i) > 0
              /\ (0 - SweepNum(i)) * Sum(call.values) = 360 * call.values[i] * ArcDen(i)

\* C12 (amended): the same, proceeding counterclockwise (towards larger
\* angles): arc i spans 360 * value_i / sum degrees upwards from its start.
C12_ArcsCounterclockwise ==
    (Pie /\ Sum(call.values) > 0) =>
        /\ ArcsConsecutive
        /\ \A i \in 1..Len(call.values) :
              /\ ArcDen(i) > 0
              /\ SweepNum(i) * Sum(call.values) = 360 * call.values[i] * ArcDen(i)

\* records 2, 1 (not in order of size): the first arc runs from 90 to 330
\* degrees, the second from 330 to 450
C12_Witness ==
    /\ Pie
    /\ call.values = <<2, 1>>
    /\ out.layout.arcs[1].from[1] = 90 * ArcDen(1)
    /\ out.layout.arcs[1].to[1] = 330 * ArcDen(1)
    /\ out.layout.arcs[2].from[1] = 330 * ArcDen(2)
    /\ out.layout.arcs[2].to[1] = 450 * ArcDen(2)


(***************************************************************************)
(* Radar polygon (specification Spec).                                     *)
(***************************************************************************)
Radar == pc = "done" /\ call.kind = "radar" /\ out.status = "ok"

\* point i (counted from 0) is at 360 * i / n degrees and carries value i, in
\* insertion order, and an (n+1)-th point repeats the value of point 0
RadarPointsEvenlySpaced ==
    LET n == Len(call.values)
        angles == out.layout.angles
        points == out.layout.points
    IN  /\ Len(angles) = n + 1
        /\ Len(points) = n + 1
        /\ \A i \in 1..n :
              /\ angles[i][2] > 0
              /\ angles[i][1] * n = 360 * (i - 1) * angles[i][2]
              /\ points[i] = call.values[i]
        /\ points[n + 1] = points[1]

\* C13 (as claimed): the angle of point i is 360 * i / n for i in 0..n-1, the
\* polygon is closed by an (n+1)-th point equal to point 0 in value, and
\* angles[n] == angles[0] + 360 degrees.
C13_RadarClosedFullTurn ==
    Radar =>
        LET n == Len(call.values)
            angles == out.layout.angles
        IN  /\ RadarPointsEvenlySpaced
            /\ angles[n + 1][2] > 0
            /\ angles[n + 1][1] * angles[1][2]
                   = (angles[1][1] + 360 * angles[1][2]) * angles[n + 1][2]

\* C13 (amended): the same, except that the closing point has the very angle
\* of point 0: angles[n] == angles[0] (0 degrees, the same direction as 360).
C13_RadarClosedSameAngle ==
    Radar =>
        LET n == Len(call.values)
            angles == out.layout.angles
        IN  /\ RadarPointsEvenlySpaced
            /\ angles[n + 1][2] > 0
            /\ angles[n + 1][1] * angles[1][2] = angles[1][1] * angles[n + 1][2]

\* four categories: angles 0, 90, 180, 270 and the closing point back at 0
C13_Witness ==
    /\ Radar
    /\ call.values = <<1, 2, 0, 1>>
    /\ \A i \in 1..4 : out.layout.angles[i][1] = 90 * (i - 1) * out.layout.angles[i][2]
    /\ out.layout.angles[5][1] = 0
    /\ out.layout.points = <<1, 2, 0, 1, 1>>


(***************************************************************************)
(* Timeline cards and the canvas (specification Spec).                     *)
(***************************************************************************)
\* lines 93-94 set the canvas to 0..10; a card centred on x = a/b with width
\* w = c/d spans x - w/2 .. x + w/2 = (2ad - cb)/(2bd) .. (2ad + cb)/(2bd)
CardWithinCanvas(card) ==
    /\ card.x[2] > 0
    /\ card.width[2] > 0
    /\ card.left[2] > 0
    /\ card.left[1] >= 0
    /\ 2 * card.x[1] * card.width[2] - card.width[1] * card.x[2] >= 0
    /\ 2 * card.x[1] * card.width[2] + card.width[1] * card.x[2]
           <= 10 * 2 * card.x[2] * card.width[2]

\* C15 (as claimed): timeline of n >= 1 records: each description card,
\* centred on its node's x-position with width (8.5 - 1.5)/n - 0.2, lies
\* entirely within the horizontal extent 0..10 of the canvas: its left edge
\* is >= 0 and its right edge is <= 10.
C15_CardsWithinCanvas ==
    (Timeline /\ Len(call.records) >= 1 /\ out.status = "ok") =>
        \A i \in 1..Len(out.layout.cards) :
            /\ out.layout.cards[i].width[1] * 5 * Len(call.records)
                   = (35 - Len(call.records)) * out.layout.cards[i].width[2]
            /\ CardWithinCanvas(out.layout.cards[i])


(***************************************************************************)
(* The colour scheme registry (specification SpecSession).                 *)
(***************************************************************************)
\* C14: after any sequence of layout computations of any chart kinds, every
\* colour scheme in the registry has the value it had initially: no layout
\* computation changes a scheme it was given.
C14_SchemesNeverMutated ==
    /\ registry = InitialRegistry
    /\ \A name \in SchemeNames : registry.chart[name] = COLOR_SCHEMES[name]

\* the second computation of a session is a bar chart of two bars, a slice
\* shorter than the gradient of its scheme, and the gradient is still whole
C14_Witness ==
    /\ pc = "done"
    /\ ncalls = 2
    /\ call.kind = "bar"
    /\ Len(call.values) = 2
    /\ out.status = "ok"
    /\ Len(out.layout.colors) = 2
    /\ Len(registry.chart[call.color].gradient) > 2
    /\ registry.chart[call.color] = COLOR_SCHEMES[call.color]


====
